---- MODULE Spec2Model ----
(***************************************************************************)
(* Model of winpty's agent-side NamedPipe (src/agent/NamedPipe.cc): two    *)
(* NamedPipe objects, "A" and "B", attached to the two ends of one Windows *)
(* named pipe.  The Win32 transport (overlapped ReadFile / WriteFile,      *)
(* GetOverlappedResult, CancelIo) is the environment; everything else is   *)
(* translated from the C++ source.                                         *)
(***************************************************************************)
EXTENDS Integers, Sequences, FiniteSets, TLC

\* ------------------------------------------------------------------ bounds
\* Total number of bytes the producers may submit (write + writeImmediately,
\* both endpoints together).
MaxBytes == 3
\* Largest size argument of one write()/writeImmediately()/read()/peek().
MaxSize == 2
\* Largest argument of setReadBufferSize().
MaxReadBuf == 2
\* The size of a worker's transfer buffer and of every receive (kIoSize,
\* 64 KiB in the program), scaled down.
kIoSize == 2
\* m_readBufferSize as set by the constructor (64 * 1024 in the program, the
\* same number as kIoSize), scaled with it.
DefaultReadBufferSize == kIoSize

Ends == {"A", "B"}
Peer(e) == IF e = "A" THEN "B" ELSE "A"
\* Both endpoints run the same NamedPipe code.  B's process created the pipe
\* and holds its server end, A's process is the client; the application on
\* top of A produces bytes, the one on top of B consumes them.
Clients == {"A"}
Servers == {"B"}
Producers == {"A"}
Consumers == {"B"}

Min(a, b) == IF a < b THEN a ELSE b

\* ------------------------------------------------------------------- state
VARIABLES
    m_handle,          \* [Ends -> BOOLEAN]   FALSE is NULL
    m_inQueue,         \* [Ends -> Seq(byte)]
    m_outQueue,        \* [Ends -> Seq(byte)]
    m_readBufferSize,  \* [Ends -> Int]
    m_inputWorker,     \* [Ends -> worker]    alive = FALSE is NULL
    m_outputWorker,    \* [Ends -> worker]
    rdOp,              \* [Ends -> op]  the transport's view of the Reader's OVERLAPPED
    wrOp,              \* [Ends -> op]  the transport's view of the Writer's OVERLAPPED
    chan,              \* [Ends -> Seq(byte)]  bytes in the pipe on their way to that end
    aborted,           \* [Ends -> BOOLEAN]  the hosting process died on an ASSERT
    nsub,              \* [Ends -> Nat]  bytes submitted so far (history)
    written,           \* [Ends -> Seq(byte)]  every byte passed to write() (history)
    sent,              \* [Ends -> Seq(byte)]  every byte handed to WriteFile, in call order (history)
    consumed,          \* [Ends -> Seq(byte)]  every byte returned by read()/readAll() (history)
    acked,             \* [Ends -> Nat]  bytes the Writer saw complete (history)
    torn,              \* BOOLEAN  some endpoint was torn down or died (history)
    closedWrites       \* [Ends -> SUBSET byte]  the queued bytes that were passed to write() while closed (history)

vars == <<m_handle, m_inQueue, m_outQueue, m_readBufferSize, m_inputWorker,
          m_outputWorker, rdOp, wrOp, chan, aborted, nsub, written, sent,
          consumed, acked, torn, closedWrites>>

pipeVars == <<m_handle, m_inQueue, m_outQueue, m_readBufferSize,
              m_inputWorker, m_outputWorker>>
histVars == <<nsub, written, sent, consumed, acked, torn, closedWrites>>
envVars  == <<rdOp, wrOp, chan>>

\* NULL worker pointer, and the worker the IoWorker constructor builds.
NoWorker  == [alive |-> FALSE, pending |-> FALSE, currentIoSize |-> -1, buffer |-> <<>>]
NewWorker == [alive |-> TRUE,  pending |-> FALSE, currentIoSize |-> -1, buffer |-> <<>>]

\* An OVERLAPPED operation as the transport sees it.
\*   none     - no operation of this worker is known to the transport
\*   inflight - issued, the transport may still touch the worker's buffer
\*   done     - completed with `actual` bytes, not yet collected
\*   error    - completed with an error, not yet collected
\*   canceled - CancelIo reached it, cancellation not yet collected
NoOp == [st |-> "none", actual |-> 0]

isClosed(e) == m_handle[e] = FALSE

\* The other end of the pipe is held open by a live process.
PeerOpen(e) == m_handle[Peer(e)] /\ ~aborted[Peer(e)]

Init ==
    /\ m_handle = [e \in Ends |-> FALSE]
    /\ m_inQueue = [e \in Ends |-> <<>>]
    /\ m_outQueue = [e \in Ends |-> <<>>]
    /\ m_readBufferSize = [e \in Ends |-> DefaultReadBufferSize]
    /\ m_inputWorker = [e \in Ends |-> NoWorker]
    /\ m_outputWorker = [e \in Ends |-> NoWorker]
    /\ rdOp = [e \in Ends |-> NoOp]
    /\ wrOp = [e \in Ends |-> NoOp]
    /\ chan = [e \in Ends |-> <<>>]
    /\ aborted = [e \in Ends |-> FALSE]
    /\ nsub = [e \in Ends |-> 0]
    /\ written = [e \in Ends |-> <<>>]
    /\ sent = [e \in Ends |-> <<>>]
    /\ consumed = [e \in Ends |-> <<>>]
    /\ acked = [e \in Ends |-> 0]
    /\ torn = FALSE
    /\ closedWrites = [e \in Ends |-> {}]

\* The bytes a producer submits are numbered in submission order; the ones
\* that go through write() are positive, the ones that go through
\* writeImmediately() are negative.
Fresh(e, n) == [i \in 1..n |-> nsub[e] + i]
FreshImm(e, n) == [i \in 1..n |-> 0 - (nsub[e] + i)]
Budget == MaxBytes - (nsub["A"] + nsub["B"])
Range(s) == {s[i] : i \in 1..Len(s)}
DropFirst(s, n) == SubSeq(s, n + 1, Len(s))

\* ------------------------------------------------- one endpoint's context
\* The part of the state one call on endpoint e can touch, as a record, so
\* that the helper functions of the source can be composed as operators.
Ctx(e) == [handle  |-> m_handle[e],
           inQ     |-> m_inQueue[e],
           outQ    |-> m_outQueue[e],
           rbs     |-> m_readBufferSize[e],
           inW     |-> m_inputWorker[e],
           outW    |-> m_outputWorker[e],
           rdOp    |-> rdOp[e],
           wrOp    |-> wrOp[e],
           chanIn  |-> chan[e],
           chanOut |-> chan[Peer(e)],
           peerOpen |-> PeerOpen(e),
           sent    |-> sent[e],
           acked   |-> acked[e],
           torn    |-> torn,
           calls   |-> <<>>,
           fatal   |-> FALSE]

GetW(x, isRead) == IF isRead THEN x.inW ELSE x.outW
SetW(x, isRead, w) == IF isRead THEN [x EXCEPT !.inW = w] ELSE [x EXCEPT !.outW = w]
GetOp(x, isRead) == IF isRead THEN x.rdOp ELSE x.wrOp
SetOp(x, isRead, o) == IF isRead THEN [x EXCEPT !.rdOp = o] ELSE [x EXCEPT !.wrOp = o]
Log(x, c) == [x EXCEPT !.calls = Append(@, c)]
Dir(isRead) == IF isRead THEN "in" ELSE "out"

\* ------------------------------------------------------ worker policies
\* InputWorker::completeIo / OutputWorker::completeIo.  A failed ASSERT is
\* fatal.
completeIo(x, isRead, size) ==
    IF isRead
    THEN [x EXCEPT !.inQ = @ \o SubSeq(x.inW.buffer, 1, size)]
    ELSE [x EXCEPT !.fatal = @ \/ size # x.outW.currentIoSize,
                   !.acked = @ + size]

\* InputWorker::shouldIssueIo with the isClosed() test inverted.
InputShouldIssueIo_InvertedClosed(x) ==
    IF x.handle
    THEN [ok |-> FALSE, size |-> 0, x |-> x]
    ELSE IF Len(x.inQ) < x.rbs
         THEN [ok |-> TRUE, size |-> kIoSize, x |-> x]
         ELSE [ok |-> FALSE, size |-> 0, x |-> x]

\* InputWorker::shouldIssueIo without the read-buffer test.
InputShouldIssueIo_NoLimit(x) ==
    IF ~x.handle
    THEN [ok |-> FALSE, size |-> 0, x |-> x]
    ELSE [ok |-> TRUE, size |-> kIoSize, x |-> x]

\* InputWorker::shouldIssueIo with the comparison off by one.
InputShouldIssueIo_OffByOne(x) ==
    IF ~x.handle
    THEN [ok |-> FALSE, size |-> 0, x |-> x]
    ELSE IF Len(x.inQ) <= x.rbs
         THEN [ok |-> TRUE, size |-> kIoSize, x |-> x]
         ELSE [ok |-> FALSE, size |-> 0, x |-> x]

\* InputWorker::shouldIssueIo: [ok, size, x].
InputShouldIssueIo(x) ==
    IF ~x.handle
    THEN [ok |-> FALSE, size |-> 0, x |-> x]
    ELSE IF Len(x.inQ) < x.rbs
         THEN [ok |-> TRUE, size |-> kIoSize, x |-> x]
         ELSE [ok |-> FALSE, size |-> 0, x |-> x]

\* OutputWorker::shouldIssueIo that copies the chunk and leaves its last byte
\* in the queue.
OutputShouldIssueIo_ShortErase(x) ==
    IF x.outQ # <<>>
    THEN LET writeSize == Min(Len(x.outQ), kIoSize)
         IN [ok |-> TRUE, size |-> writeSize,
             x |-> [x EXCEPT !.outW.buffer = SubSeq(x.outQ, 1, writeSize),
                             !.outQ = DropFirst(x.outQ, writeSize - 1)]]
    ELSE [ok |-> FALSE, size |-> 0, x |-> x]

\* OutputWorker::shouldIssueIo that sends one byte per operation.
OutputShouldIssueIo_OneByte(x) ==
    IF x.outQ # <<>>
    THEN [ok |-> TRUE, size |-> 1,
          x |-> [x EXCEPT !.outW.buffer = SubSeq(x.outQ, 1, 1),
                          !.outQ = DropFirst(x.outQ, 1)]]
    ELSE [ok |-> FALSE, size |-> 0, x |-> x]

\* OutputWorker::shouldIssueIo: the chunk leaves the output queue here.
OutputShouldIssueIo(x) ==
    IF x.outQ # <<>>
    THEN LET writeSize == Min(Len(x.outQ), kIoSize)
         IN [ok |-> TRUE, size |-> writeSize,
             x |-> [x EXCEPT !.outW.buffer = SubSeq(x.outQ, 1, writeSize),
                             !.outQ = DropFirst(x.outQ, writeSize)]]
    ELSE [ok |-> FALSE, size |-> 0, x |-> x]

shouldIssueIo(x, isRead) ==
    IF isRead THEN InputShouldIssueIo(x) ELSE OutputShouldIssueIo(x)

\* OutputWorker::getPendingIoSize without the m_pending test.
getPendingIoSize_Unconditional(w) == w.currentIoSize

\* OutputWorker::getPendingIoSize.
getPendingIoSize(w) == IF w.pending THEN w.currentIoSize ELSE 0

\* IoWorker::getWaitEvent that returns m_event whether or not an operation
\* is pending.
getWaitEvent_Always(w) == TRUE

\* IoWorker::getWaitEvent: TRUE stands for m_event, FALSE for NULL.
getWaitEvent(w) == w.pending

\* ------------------------------------------------------------ transport
\* Overlapped ReadFile(m_handle, m_buffer, size) on a byte-mode pipe.  With
\* bytes in the pipe it completes at once with some non-empty prefix of at
\* most `size` bytes; with none it stays pending while the other end is open
\* and fails once it is not.
ReadFile(x, size) ==
    IF x.chanIn # <<>>
    THEN {[kind |-> "sync", actual |-> k,
           x |-> [x EXCEPT !.inW.buffer = SubSeq(x.chanIn, 1, k),
                           !.chanIn = DropFirst(x.chanIn, k)]]
            : k \in 1..Min(size, Len(x.chanIn))}
    ELSE IF x.peerOpen
         THEN {[kind |-> "pending", actual |-> 0,
                x |-> [x EXCEPT !.rdOp = [st |-> "inflight", actual |-> 0]]]}
         ELSE {[kind |-> "error", actual |-> 0, x |-> x]}

\* Overlapped WriteFile(m_handle, m_buffer, size): all of the bytes go into
\* the pipe at once, or the operation stays pending; it fails when the other
\* end is not open.
WriteFile(x, size) ==
    LET y == [x EXCEPT !.sent = @ \o SubSeq(x.outW.buffer, 1, size)]
    IN IF x.peerOpen
       THEN {[kind |-> "sync", actual |-> size,
              x |-> [y EXCEPT !.chanOut = @ \o SubSeq(x.outW.buffer, 1, size)]],
             [kind |-> "pending", actual |-> 0,
              x |-> [y EXCEPT !.wrOp = [st |-> "inflight", actual |-> 0]]]}
       ELSE {[kind |-> "error", actual |-> 0, x |-> y]}

IssueIo(x, isRead, size) ==
    IF isRead THEN ReadFile(Log(x, "ReadFile"), size)
              ELSE WriteFile(Log(x, "WriteFile"), size)

\* ------------------------------------------------------ IoWorker::service
\* The ERROR_IO_PENDING branch that forgets "m_pending = true".
MarkPending_Forgotten(x, isRead) == x

\* m_pending = true.
MarkPending(x, isRead) ==
    SetW(x, isRead, [GetW(x, isRead) EXCEPT !.pending = TRUE])

\* The set of [x, ret] one call can end in.  IssueLoop is the while loop,
\* entered with the progress made so far.
\* The issuing part of IoWorker::service with "if" where the code has
\* "while": one operation per call.
IssueLoop_Once(x, isRead, progress) ==
    LET d == shouldIssueIo(x, isRead)
    IN IF ~d.ok
       THEN {[x |-> x, ret |-> progress]}
       ELSE LET x1 == SetW(d.x, isRead,
                           [GetW(d.x, isRead) EXCEPT !.currentIoSize = d.size])
            IN UNION {
                 CASE o.kind = "pending" ->
                        {[x |-> MarkPending(o.x, isRead), ret |-> progress]}
                   [] o.kind = "error" ->
                        {[x |-> o.x, ret |-> -1]}
                   [] o.kind = "sync" ->
                        LET x2 == completeIo(o.x, isRead, o.actual)
                            x3 == SetW(x2, isRead,
                                       [GetW(x2, isRead) EXCEPT !.currentIoSize = -1])
                        IN {[x |-> x3, ret |-> progress + o.actual]}
                 : o \in IssueIo(x1, isRead, d.size) }

RECURSIVE IssueLoop(_, _, _)
IssueLoop(x, isRead, progress) ==
    LET d == shouldIssueIo(x, isRead)
    IN IF ~d.ok
       THEN {[x |-> x, ret |-> progress]}
       ELSE LET x1 == SetW(d.x, isRead,
                           [GetW(d.x, isRead) EXCEPT !.currentIoSize = d.size])
            IN UNION {
                 CASE o.kind = "pending" ->
                        {[x |-> MarkPending(o.x, isRead), ret |-> progress]}
                   [] o.kind = "error" ->
                        {[x |-> o.x, ret |-> -1]}
                   [] o.kind = "sync" ->
                        LET x2 == completeIo(o.x, isRead, o.actual)
                            x3 == SetW(x2, isRead,
                                       [GetW(x2, isRead) EXCEPT !.currentIoSize = -1])
                        IN IssueLoop(x3, isRead, progress + o.actual)
                 : o \in IssueIo(x1, isRead, d.size) }

WorkerService(x, isRead) ==
    IF GetW(x, isRead).pending
    THEN LET x0 == Log(x, "GetOverlappedResult")
             op == GetOp(x0, isRead)
         IN CASE op.st = "inflight" -> {[x |-> x0, ret |-> 0]}
              [] op.st = "done" ->
                   LET x1 == SetOp(x0, isRead, NoOp)
                       x2 == SetW(x1, isRead,
                                  [GetW(x1, isRead) EXCEPT !.pending = FALSE])
                       x3 == completeIo(x2, isRead, op.actual)
                       x4 == SetW(x3, isRead,
                                  [GetW(x3, isRead) EXCEPT !.currentIoSize = -1])
                   IN IssueLoop(x4, isRead, op.actual)
              [] OTHER -> {[x |-> x0, ret |-> -1]}
    ELSE IssueLoop(x, isRead, 0)

\* ---------------------------------------------------- NamedPipe::closePipe
\* CancelIo(m_handle): every operation still in flight on the handle is
\* canceled.
CancelIo(x) ==
    LET c(o) == IF o.st = "inflight" THEN [st |-> "canceled", actual |-> 0] ELSE o
    IN [Log(x, "CancelIo") EXCEPT !.rdOp = c(@), !.wrOp = c(@)]

\* IoWorker::waitForCanceledIo that clears the flag without waiting for the
\* transport.
waitForCanceledIo_NoWait(x, isRead) ==
    SetW(x, isRead, [GetW(x, isRead) EXCEPT !.pending = FALSE])

\* IoWorker::waitForCanceledIo that treats the drained operation as a
\* completed one and calls completeIo on it.
waitForCanceledIo_Completes(x, isRead) ==
    IF GetW(x, isRead).pending
    THEN LET op == GetOp(x, isRead)
             x1 == SetOp(Log(x, "GetOverlappedResult:wait:" \o Dir(isRead)), isRead, NoOp)
             x2 == SetW(x1, isRead, [GetW(x1, isRead) EXCEPT !.pending = FALSE])
         IN IF op.st = "done" THEN completeIo(x2, isRead, op.actual) ELSE x2
    ELSE x

\* IoWorker::waitForCanceledIo: the blocking GetOverlappedResult returns once
\* the transport is done with the operation, whatever its outcome.
waitForCanceledIo(x, isRead) ==
    IF GetW(x, isRead).pending
    THEN LET x1 == SetOp(Log(x, "GetOverlappedResult:wait:" \o Dir(isRead)), isRead, NoOp)
         IN SetW(x1, isRead, [GetW(x1, isRead) EXCEPT !.pending = FALSE])
    ELSE x

\* delete m_inputWorker / delete m_outputWorker, and the NULL stored after.
DeleteWorker(x, isRead) ==
    IF GetW(x, isRead).alive
    THEN SetW(Log(x, "delete:" \o Dir(isRead)), isRead, NoWorker)
    ELSE x

CloseHandle(x) == [Log(x, "CloseHandle") EXCEPT !.handle = FALSE]

\* closePipe past its early return: cancel, drain, delete, release.
Teardown(x) ==
    LET x1 == CancelIo(x)
        x2 == IF x1.inW.alive THEN waitForCanceledIo(x1, TRUE) ELSE x1
        x3 == IF x2.outW.alive THEN waitForCanceledIo(x2, FALSE) ELSE x2
        x4 == DeleteWorker(x3, TRUE)
        x5 == DeleteWorker(x4, FALSE)
        x6 == CloseHandle(x5)
    IN [x6 EXCEPT !.torn = TRUE]

\* closePipe without the early return for a NULL handle.
closePipe_NoGuard(x) == Teardown(x)

closePipe(x) == IF ~x.handle THEN x ELSE Teardown(x)

\* NamedPipe::bytesToSend with "ret =" where the code has "ret +=".
BytesToSendOf_Assign(outQ, outW) ==
    IF outW.alive THEN getPendingIoSize(outW) ELSE Len(outQ)

\* NamedPipe::bytesToSend.
BytesToSendOf(outQ, outW) ==
    Len(outQ) + (IF outW.alive THEN getPendingIoSize(outW) ELSE 0)
bytesToSend(e) == BytesToSendOf(m_outQueue[e], m_outputWorker[e])

\* NamedPipe::bytesAvailable.
bytesAvailable(e) == Len(m_inQueue[e])

\* NamedPipe::readBufferSize.
readBufferSize(e) == m_readBufferSize[e]

\* ------------------------------------------------------------- actions
\* Store a context back into the state of endpoint e.
Apply(e, x) ==
    /\ m_handle' = [m_handle EXCEPT ![e] = x.handle]
    /\ m_inQueue' = [m_inQueue EXCEPT ![e] = x.inQ]
    /\ m_outQueue' = [m_outQueue EXCEPT ![e] = x.outQ]
    /\ m_inputWorker' = [m_inputWorker EXCEPT ![e] = x.inW]
    /\ m_outputWorker' = [m_outputWorker EXCEPT ![e] = x.outW]
    /\ rdOp' = [rdOp EXCEPT ![e] = x.rdOp]
    /\ wrOp' = [wrOp EXCEPT ![e] = x.wrOp]
    /\ chan' = [chan EXCEPT ![e] = x.chanIn, ![Peer(e)] = x.chanOut]
    /\ sent' = [sent EXCEPT ![e] = x.sent]
    /\ acked' = [acked EXCEPT ![e] = x.acked]
    /\ torn' = x.torn
    /\ closedWrites' = [closedWrites EXCEPT ![e] = @ \cap Range(x.outQ)]

\* A failed ASSERT: the process hosting endpoint e is gone, and with it the
\* endpoint's memory; the system closes its handle and drops its operations.
Die(e) ==
    /\ aborted' = [aborted EXCEPT ![e] = TRUE]
    /\ m_handle' = [m_handle EXCEPT ![e] = FALSE]
    /\ m_inQueue' = [m_inQueue EXCEPT ![e] = <<>>]
    /\ m_outQueue' = [m_outQueue EXCEPT ![e] = <<>>]
    /\ m_readBufferSize' = [m_readBufferSize EXCEPT ![e] = DefaultReadBufferSize]
    /\ m_inputWorker' = [m_inputWorker EXCEPT ![e] = NoWorker]
    /\ m_outputWorker' = [m_outputWorker EXCEPT ![e] = NoWorker]
    /\ rdOp' = [rdOp EXCEPT ![e] = NoOp]
    /\ wrOp' = [wrOp EXCEPT ![e] = NoOp]
    /\ written' = [written EXCEPT ![e] = <<>>]
    /\ sent' = [sent EXCEPT ![e] = <<>>]
    /\ consumed' = [consumed EXCEPT ![e] = <<>>]
    /\ acked' = [acked EXCEPT ![e] = 0]
    /\ closedWrites' = [closedWrites EXCEPT ![e] = {}]
    /\ torn' = TRUE
    /\ UNCHANGED <<chan, nsub>>

\* readHandle / writeHandle of NamedPipe::serviceIo: the directions whose
\* worker reported a non-NULL wait event after its service() call.
ReportedHandles(x) ==
    (IF x.inW.alive /\ getWaitEvent(x.inW) THEN {"in"} ELSE {})
    \cup (IF x.outW.alive /\ getWaitEvent(x.outW) THEN {"out"} ELSE {})

\* The end of NamedPipe::serviceIo that forgets the teardown on failure.
serviceIoFinish_NoClose(x, readBytes, writeBytes) ==
    IF readBytes = -1 \/ writeBytes = -1
    THEN [x |-> x, ret |-> TRUE, failed |-> TRUE,
          reported |-> ReportedHandles(x), waitHandles |-> {}]
    ELSE [x |-> x, ret |-> readBytes > 0 \/ writeBytes > 0, failed |-> FALSE,
          reported |-> ReportedHandles(x), waitHandles |-> ReportedHandles(x)]

\* The end of NamedPipe::serviceIo with "&&" where the code has "||".
serviceIoFinish_AndProgress(x, readBytes, writeBytes) ==
    IF readBytes = -1 \/ writeBytes = -1
    THEN [x |-> closePipe(x), ret |-> TRUE, failed |-> TRUE,
          reported |-> ReportedHandles(x), waitHandles |-> {}]
    ELSE [x |-> x, ret |-> readBytes > 0 /\ writeBytes > 0, failed |-> FALSE,
          reported |-> ReportedHandles(x), waitHandles |-> ReportedHandles(x)]

\* The end of NamedPipe::serviceIo, once both workers have been serviced:
\* the state left, the value returned, whether the tick failed, the handles
\* the workers reported and the handles pushed onto waitHandles.
serviceIoFinish(x, readBytes, writeBytes) ==
    IF readBytes = -1 \/ writeBytes = -1
    THEN [x |-> closePipe(x), ret |-> TRUE, failed |-> TRUE,
          reported |-> ReportedHandles(x), waitHandles |-> {}]
    ELSE [x |-> x, ret |-> readBytes > 0 \/ writeBytes > 0, failed |-> FALSE,
          reported |-> ReportedHandles(x), waitHandles |-> ReportedHandles(x)]

\* NamedPipe::serviceIo as a function of the state: every way one call on
\* endpoint e can end.
serviceIoOutcomes(e) ==
    IF m_handle[e] = FALSE
    THEN {[x |-> Ctx(e), ret |-> FALSE, failed |-> FALSE,
           reported |-> {}, waitHandles |-> {}]}
    ELSE UNION {
           { serviceIoFinish(w.x, r.ret, w.ret)
             : w \in (IF r.x.outW.alive
                      THEN WorkerService(r.x, FALSE)
                      ELSE {[x |-> r.x, ret |-> 0]}) }
         : r \in (IF m_inputWorker[e].alive
                  THEN WorkerService(Ctx(e), TRUE)
                  ELSE {[x |-> Ctx(e), ret |-> 0]}) }

serviceIo(e) ==
    /\ ~aborted[e]
    /\ \E o \in serviceIoOutcomes(e) :
          IF o.x.fatal
          THEN Die(e)
          ELSE /\ Apply(e, o.x)
               /\ UNCHANGED <<m_readBufferSize, aborted, nsub, written, consumed>>

\* NamedPipe::closePipe called by the owner (also what the destructor runs).
ClosePipe(e) ==
    /\ ~aborted[e]
    /\ Apply(e, closePipe(Ctx(e)))
    /\ UNCHANGED <<m_readBufferSize, aborted, nsub, written, consumed>>

\* NamedPipe::connectToServer: "fatal" when the ASSERT fails, else what it
\* returns.  CreateFileW finds a pipe to open iff the other end is open.
connectToServerResult(e) ==
    IF ~isClosed(e) THEN "fatal"
    ELSE IF PeerOpen(e) THEN "true" ELSE "false"

connectToServer(e) ==
    /\ ~aborted[e]
    /\ LET res == connectToServerResult(e)
       IN CASE res = "fatal" -> Die(e)
            [] res = "false" -> UNCHANGED vars
            [] res = "true" ->
                 /\ m_handle' = [m_handle EXCEPT ![e] = TRUE]
                 /\ m_inputWorker' = [m_inputWorker EXCEPT ![e] = NewWorker]
                 /\ m_outputWorker' = [m_outputWorker EXCEPT ![e] = NewWorker]
                 /\ UNCHANGED <<m_inQueue, m_outQueue, m_readBufferSize,
                                envVars, histVars, aborted>>

\* NamedPipe::connectToClient: ConnectNamedPipe succeeds iff a client holds
\* the other end (at once or within the 30 s wait); anything else is fatal.
connectToClientResult(e) ==
    IF isClosed(e) \/ ~PeerOpen(e) THEN "fatal" ELSE "ok"

connectToClient(e) ==
    /\ ~aborted[e]
    /\ IF connectToClientResult(e) = "fatal"
       THEN Die(e)
       ELSE UNCHANGED vars

\* NamedPipe::adoptHandle that creates both workers, as connectToServer does.
adoptHandle_Both(e, write) ==
    /\ ~aborted[e]
    /\ IF ~isClosed(e)
       THEN Die(e)
       ELSE /\ m_handle' = [m_handle EXCEPT ![e] = TRUE]
            /\ m_outputWorker' = [m_outputWorker EXCEPT ![e] = NewWorker]
            /\ m_inputWorker' = [m_inputWorker EXCEPT ![e] = NewWorker]
            /\ UNCHANGED <<m_inQueue, m_outQueue, m_readBufferSize,
                           envVars, histVars, aborted>>

\* NamedPipe::adoptHandle.
adoptHandle(e, write) ==
    /\ ~aborted[e]
    /\ IF ~isClosed(e)
       THEN Die(e)
       ELSE /\ m_handle' = [m_handle EXCEPT ![e] = TRUE]
            /\ IF write
               THEN /\ m_outputWorker' = [m_outputWorker EXCEPT ![e] = NewWorker]
                    /\ UNCHANGED m_inputWorker
               ELSE /\ m_inputWorker' = [m_inputWorker EXCEPT ![e] = NewWorker]
                    /\ UNCHANGED m_outputWorker
            /\ UNCHANGED <<m_inQueue, m_outQueue, m_readBufferSize,
                           envVars, histVars, aborted>>

\* NamedPipe::write that hands the bytes to the transport itself instead of
\* leaving them to the Writer.
write_Eager(e, size) ==
    /\ ~aborted[e]
    /\ size <= Budget
    /\ written' = [written EXCEPT ![e] = @ \o Fresh(e, size)]
    /\ sent' = [sent EXCEPT ![e] = @ \o Fresh(e, size)]
    /\ chan' = [chan EXCEPT ![Peer(e)] = @ \o Fresh(e, size)]
    /\ nsub' = [nsub EXCEPT ![e] = @ + size]
    /\ UNCHANGED <<pipeVars, rdOp, wrOp, aborted, consumed, acked, torn, closedWrites>>

\* NamedPipe::write(data, size).
write(e, size) ==
    /\ ~aborted[e]
    /\ size <= Budget
    /\ m_outQueue' = [m_outQueue EXCEPT ![e] = @ \o Fresh(e, size)]
    /\ written' = [written EXCEPT ![e] = @ \o Fresh(e, size)]
    /\ nsub' = [nsub EXCEPT ![e] = @ + size]
    /\ closedWrites' = [closedWrites EXCEPT ![e] =
                           IF isClosed(e) /\ sent[e] # <<>>
                           THEN @ \cup Range(Fresh(e, size)) ELSE @]
    /\ UNCHANGED <<m_handle, m_inQueue, m_readBufferSize, m_inputWorker,
                   m_outputWorker, envVars, aborted, sent, consumed, acked, torn>>

\* NamedPipe::writeImmediately without ASSERT(!m_outputWorker->ioPending()).
writeImmediatelyOutcomes_NoPendingCheck(e, size) ==
    IF ~m_outputWorker[e].alive
    THEN {[fatal |-> TRUE, calls |-> <<>>]}
    ELSE {[fatal |-> TRUE, calls |-> <<"WriteFile">>]}
         \cup (IF PeerOpen(e)
               THEN {[fatal |-> FALSE, calls |-> <<"WriteFile">>]}
               ELSE {})

\* NamedPipe::writeImmediately(data, size) as a function of the state: the
\* ways one call can end.  "fatal" is a failed ASSERT; `calls` are the
\* transport calls made.  The blocking WriteFile puts all the bytes into the
\* pipe, or fails or times out.
writeImmediatelyOutcomes(e, size) ==
    IF ~m_outputWorker[e].alive
    THEN {[fatal |-> TRUE, calls |-> <<>>]}
    ELSE IF m_outputWorker[e].pending
         THEN {[fatal |-> TRUE, calls |-> <<>>]}
         ELSE {[fatal |-> TRUE, calls |-> <<"WriteFile">>]}
              \cup (IF PeerOpen(e)
                    THEN {[fatal |-> FALSE, calls |-> <<"WriteFile">>]}
                    ELSE {})

writeImmediately(e, size) ==
    /\ ~aborted[e]
    /\ size <= Budget
    /\ \E o \in writeImmediatelyOutcomes(e, size) :
          IF o.fatal
          THEN Die(e)
          ELSE /\ chan' = [chan EXCEPT ![Peer(e)] = @ \o FreshImm(e, size)]
               /\ sent' = [sent EXCEPT ![e] = @ \o FreshImm(e, size)]
               /\ nsub' = [nsub EXCEPT ![e] = @ + size]
               /\ UNCHANGED <<pipeVars, rdOp, wrOp, aborted, written, consumed,
                              acked, torn, closedWrites>>

\* NamedPipe::setReadBufferSize.
setReadBufferSize(e, size) ==
    /\ ~aborted[e]
    /\ m_readBufferSize' = [m_readBufferSize EXCEPT ![e] = size]
    /\ UNCHANGED <<m_handle, m_inQueue, m_outQueue, m_inputWorker,
                   m_outputWorker, envVars, histVars, aborted>>

\* NamedPipe::peek: the bytes copied out; the queue is not touched.
peekResult(e, size) == SubSeq(m_inQueue[e], 1, Min(size, Len(m_inQueue[e])))

peek(e, size) ==
    /\ ~aborted[e]
    /\ UNCHANGED vars

\* NamedPipe::read that returns the bytes and forgets to erase them.
read_NoErase(e, size) ==
    /\ ~aborted[e]
    /\ consumed' = [consumed EXCEPT ![e] =
                       @ \o SubSeq(m_inQueue[e], 1, Min(size, Len(m_inQueue[e])))]
    /\ UNCHANGED <<pipeVars, envVars, aborted, nsub, written, sent,
                   acked, torn, closedWrites>>

\* NamedPipe::read(size) (readAsVector does the same to the queue).
readResult(e, size) == SubSeq(m_inQueue[e], 1, Min(size, Len(m_inQueue[e])))

read(e, size) ==
    /\ ~aborted[e]
    /\ LET retSize == Min(size, Len(m_inQueue[e]))
       IN /\ m_inQueue' = [m_inQueue EXCEPT ![e] = DropFirst(@, retSize)]
          /\ consumed' = [consumed EXCEPT ![e] = @ \o readResult(e, size)]
    /\ UNCHANGED <<m_handle, m_outQueue, m_readBufferSize, m_inputWorker,
                   m_outputWorker, envVars, aborted, nsub, written, sent,
                   acked, torn, closedWrites>>

\* NamedPipe::readAll.
readAll(e) ==
    /\ ~aborted[e]
    /\ m_inQueue' = [m_inQueue EXCEPT ![e] = <<>>]
    /\ consumed' = [consumed EXCEPT ![e] = @ \o m_inQueue[e]]
    /\ UNCHANGED <<m_handle, m_outQueue, m_readBufferSize, m_inputWorker,
                   m_outputWorker, envVars, aborted, nsub, written, sent,
                   acked, torn, closedWrites>>

\* ------------------------------------------------ the transport's own steps
\* A pending WriteFile completes: its bytes enter the pipe.
TransportCompletesWrite(e) ==
    /\ wrOp[e].st = "inflight"
    /\ PeerOpen(e)
    /\ LET w == m_outputWorker[e]
       IN /\ chan' = [chan EXCEPT ![Peer(e)] = @ \o SubSeq(w.buffer, 1, w.currentIoSize)]
          /\ wrOp' = [wrOp EXCEPT ![e] = [st |-> "done", actual |-> w.currentIoSize]]
    /\ UNCHANGED <<pipeVars, rdOp, aborted, histVars>>

\* A pending ReadFile completes: some bytes leave the pipe for m_buffer.
TransportCompletesRead(e) ==
    /\ rdOp[e].st = "inflight"
    /\ chan[e] # <<>>
    /\ \E k \in 1..Min(m_inputWorker[e].currentIoSize, Len(chan[e])) :
          /\ m_inputWorker' = [m_inputWorker EXCEPT ![e].buffer = SubSeq(chan[e], 1, k)]
          /\ chan' = [chan EXCEPT ![e] = DropFirst(@, k)]
          /\ rdOp' = [rdOp EXCEPT ![e] = [st |-> "done", actual |-> k]]
    /\ UNCHANGED <<m_handle, m_inQueue, m_outQueue, m_readBufferSize,
                   m_outputWorker, wrOp, aborted, histVars>>

\* A pending operation fails because the other end of the pipe is gone.
TransportFailsRead(e) ==
    /\ rdOp[e].st = "inflight"
    /\ ~PeerOpen(e)
    /\ chan[e] = <<>>
    /\ rdOp' = [rdOp EXCEPT ![e] = [st |-> "error", actual |-> 0]]
    /\ UNCHANGED <<pipeVars, wrOp, chan, aborted, histVars>>

TransportFailsWrite(e) ==
    /\ wrOp[e].st = "inflight"
    /\ ~PeerOpen(e)
    /\ wrOp' = [wrOp EXCEPT ![e] = [st |-> "error", actual |-> 0]]
    /\ UNCHANGED <<pipeVars, rdOp, chan, aborted, histVars>>

Next ==
    \/ \E e \in Ends : serviceIo(e)
    \/ \E e \in Ends : ClosePipe(e)
    \/ \E e \in Clients : connectToServer(e)
    \/ \E e \in Servers : connectToClient(e)
    \/ \E e \in Ends : \E wr \in BOOLEAN : adoptHandle(e, wr)
    \/ \E e \in Producers : \E n \in 1..MaxSize : write(e, n)
    \/ \E e \in Producers : \E n \in 1..MaxSize : writeImmediately(e, n)
    \/ \E e \in Consumers : \E n \in 1..MaxReadBuf : setReadBufferSize(e, n)
    \/ \E e \in Consumers : \E n \in 1..MaxSize : peek(e, n)
    \/ \E e \in Consumers : \E n \in 1..MaxSize : read(e, n)
    \/ \E e \in Consumers : readAll(e)
    \/ \E e \in Ends : TransportCompletesWrite(e)
    \/ \E e \in Ends : TransportCompletesRead(e)
    \/ \E e \in Ends : TransportFailsRead(e)
    \/ \E e \in Ends : TransportFailsWrite(e)

Spec == Init /\ [][Next]_vars

\* ============================================================ properties
\* The bytes of a sequence that went through write().
Queued(s) == SelectSeq(s, LAMBDA b : b > 0)
IsPrefix(s, t) == Len(s) <= Len(t) /\ s = SubSeq(t, 1, Len(s))

\* C1 as stated: in every reachable state the length of an endpoint's input
\* queue (bytesAvailable()) is at most its read-capacity limit
\* (readBufferSize()).
C1_QueueNeverExceedsLimit ==
    \A e \in Ends : bytesAvailable(e) <= readBufferSize(e)

\* C1, amended: the limit gates the issuing of receives, it does not cap the
\* queue.  Whenever a step makes an input queue longer, either the queue ends
\* at most kIoSize - 1 bytes above the limit (every receive of that tick was
\* issued below the limit and brought at most kIoSize bytes), or the step
\* only collected the bytes of the receive that was already outstanding.
C1_LimitGatesIssue ==
    [][\A e \in Ends :
          bytesAvailable(e)' > bytesAvailable(e) =>
             \/ bytesAvailable(e)' <= readBufferSize(e) + kIoSize - 1
             \/ /\ m_inputWorker[e].pending
                /\ rdOp[e].st = "done"
                /\ bytesAvailable(e)' = bytesAvailable(e) + rdOp[e].actual]_vars

\* C1 witness: a queue that stands kIoSize - 1 bytes above the default limit.
C1_Witness ==
    \E e \in Ends :
        /\ readBufferSize(e) = DefaultReadBufferSize
        /\ bytesAvailable(e) = readBufferSize(e) + kIoSize - 1

\* C2: within one direction the bytes the Writer has handed to WriteFile,
\* followed by the bytes still in the output queue, are exactly the bytes
\* passed to write(), in order; and as long as no endpoint has been torn
\* down, what the peer has consumed followed by its input queue is a prefix
\* of what the Writer has handed over.
C2_Fifo ==
    \A e \in Ends :
        /\ Queued(sent[e]) \o m_outQueue[e] = written[e]
        /\ ~torn => IsPrefix(Queued(consumed[Peer(e)] \o m_inQueue[Peer(e)]),
                             Queued(sent[e]))

\* C2 witness: with nothing torn down, the peer has consumed all MaxBytes
\* bytes written, which took more than one write() and more than one send.
C2_Witness ==
    \E e \in Ends :
        /\ ~torn
        /\ Len(written[e]) = MaxBytes
        /\ consumed[Peer(e)] = written[e]

\* ------------------------------------------------------------- liveness
\* The round trip under the scheduling the event loop provides: no owner
\* closes an endpoint, every endpoint is serviced again and again, the
\* transport completes what it can, and the consumer keeps draining.
LiveNext ==
    \/ \E e \in Ends : serviceIo(e)
    \/ \E e \in Clients : connectToServer(e)
    \/ \E e \in Servers : \E wr \in BOOLEAN : adoptHandle(e, wr)
    \/ \E e \in Producers : \E n \in 1..MaxSize : write(e, n)
    \/ \E e \in Consumers : \E n \in 1..MaxSize : read(e, n)
    \/ \E e \in Consumers : readAll(e)
    \/ \E e \in Ends : TransportCompletesWrite(e)
    \/ \E e \in Ends : TransportCompletesRead(e)
    \/ \E e \in Ends : TransportFailsRead(e)
    \/ \E e \in Ends : TransportFailsWrite(e)

LiveSpec ==
    /\ Init
    /\ [][LiveNext]_vars
    /\ \A e \in Ends : WF_vars(serviceIo(e))
    /\ \A e \in Ends : WF_vars(TransportCompletesWrite(e))
    /\ \A e \in Ends : WF_vars(TransportCompletesRead(e))
    /\ \A e \in Consumers : WF_vars(readAll(e))

\* Endpoint e can send to its peer: e has a Writer, the peer has a Reader,
\* and nothing has been torn down.
Up(e) == ~torn /\ m_outputWorker[e].alive /\ m_inputWorker[Peer(e)].alive

\* C3: while the two endpoints stay connected, every byte passed to write()
\* is eventually returned by the peer's read accessors, and bytesToSend()
\* eventually returns to 0.
C3_RoundTrip ==
    \A e \in Producers :
        /\ \A k \in 1..MaxBytes :
              (Up(e) /\ k \in Range(written[e]))
                 ~> (~Up(e) \/ k \in Range(consumed[Peer(e)]))
        /\ (Up(e) /\ bytesToSend(e) > 0) ~> (~Up(e) \/ bytesToSend(e) = 0)

\* C3 witness: still connected, all MaxBytes bytes written have come out of
\* the peer's read accessors and nothing is left to send.
C3_Witness ==
    \E e \in Producers :
        /\ Up(e)
        /\ Len(written[e]) = MaxBytes
        /\ Range(written[e]) \subseteq Range(consumed[Peer(e)])
        /\ bytesToSend(e) = 0

\* ------------------------------------------------ failure and teardown
\* A worker of endpoint e is about to observe a transport error: on the
\* completion query of its outstanding operation, or on issuing one.
ErrorOnCompletion(e) ==
    /\ m_handle[e]
    /\ \/ m_inputWorker[e].alive /\ m_inputWorker[e].pending /\ rdOp[e].st = "error"
       \/ m_outputWorker[e].alive /\ m_outputWorker[e].pending /\ wrOp[e].st = "error"
ErrorOnIssue(e) ==
    /\ m_handle[e]
    /\ ~PeerOpen(e)
    /\ \/ /\ m_outputWorker[e].alive /\ ~m_outputWorker[e].pending
          /\ m_outQueue[e] # <<>>
       \/ /\ m_inputWorker[e].alive /\ ~m_inputWorker[e].pending
          /\ Len(m_inQueue[e]) < m_readBufferSize[e]
          /\ chan[e] = <<>>

\* C4: when a worker observes a transport error during service (on the
\* completion query of a pending operation or on issuance), that call
\* returns true and leaves the endpoint closed with both workers gone; a
\* call on a closed endpoint returns false, changes nothing and makes no
\* transport call, so the true is reported once.
C4_FailureTeardown ==
    \A e \in Ends : ~aborted[e] =>
        \A o \in serviceIoOutcomes(e) :
            /\ (ErrorOnCompletion(e) \/ ErrorOnIssue(e)) => o.failed
            /\ o.failed => /\ o.ret = TRUE
                           /\ o.x.handle = FALSE
                           /\ ~o.x.inW.alive /\ ~o.x.outW.alive
                           /\ o.x.rdOp = NoOp /\ o.x.wrOp = NoOp
            /\ isClosed(e) => /\ o.ret = FALSE
                              /\ o.x = Ctx(e)
                              /\ o.x.calls = <<>>
                              /\ o.waitHandles = {}

\* C4 witness: an open endpoint whose Reader has an outstanding receive that
\* the transport has failed; the next service call observes it.
C4_Witness ==
    \E e \in Ends :
        /\ ~aborted[e] /\ m_handle[e]
        /\ m_inputWorker[e].alive /\ m_inputWorker[e].pending
        /\ rdOp[e].st = "error"
        /\ \E o \in serviceIoOutcomes(e) : o.failed /\ o.ret /\ ~o.x.handle

\* The transport calls of a teardown come in the order cancel, drains,
\* destructions, release.
Drains == {"GetOverlappedResult:wait:in", "GetOverlappedResult:wait:out"}
Destroys == {"delete:in", "delete:out"}
Pos(c, names) == {i \in 1..Len(c) : c[i] \in names}
Before(c, first, then) == \A i \in Pos(c, first) : \A j \in Pos(c, then) : i < j
TeardownOrder(c) ==
    /\ Before(c, {"CancelIo"}, Drains \cup Destroys \cup {"CloseHandle"})
    /\ Before(c, Drains, Destroys \cup {"CloseHandle"})
    /\ Before(c, Destroys, {"CloseHandle"})
    /\ Pos(c, {"CancelIo"}) # {} /\ Pos(c, {"CloseHandle"}) # {}

\* C5: on an explicit close and on a failure-induced one, the cancel comes
\* first, then the drain of every worker that has an operation outstanding,
\* then the destruction of the workers, then the release of the handle; and
\* no reachable state has a destroyed worker whose operation the transport
\* still holds, or a closed endpoint with a worker or a pending flag left.
C5_CloseOrdering ==
    \A e \in Ends :
        /\ ~m_inputWorker[e].alive => rdOp[e].st = "none"
        /\ ~m_outputWorker[e].alive => wrOp[e].st = "none"
        /\ isClosed(e) => /\ m_inputWorker[e] = NoWorker
                          /\ m_outputWorker[e] = NoWorker
        /\ (~aborted[e] /\ m_handle[e]) =>
              /\ TeardownOrder(closePipe(Ctx(e)).calls)
              /\ (m_inputWorker[e].pending =>
                    "GetOverlappedResult:wait:in" \in Range(closePipe(Ctx(e)).calls))
              /\ (m_outputWorker[e].pending =>
                    "GetOverlappedResult:wait:out" \in Range(closePipe(Ctx(e)).calls))
              /\ \A o \in serviceIoOutcomes(e) : o.failed => TeardownOrder(o.x.calls)

\* C5 witness: an open endpoint with operations of both of its workers in
\* flight, whose close drains both.
C5_Witness ==
    \E e \in Ends :
        /\ ~aborted[e] /\ m_handle[e]
        /\ m_inputWorker[e].pending /\ rdOp[e].st = "inflight"
        /\ m_outputWorker[e].pending /\ wrOp[e].st = "inflight"
        /\ Drains \subseteq Range(closePipe(Ctx(e)).calls)

\* C6: after any close the endpoint is closed, and a close on a closed
\* endpoint changes nothing and makes no transport call.
C6_CloseIdempotent ==
    \A e \in Ends : ~aborted[e] =>
        /\ closePipe(Ctx(e)).handle = FALSE
        /\ closePipe(closePipe(Ctx(e))) = closePipe(Ctx(e))
        /\ isClosed(e) => /\ closePipe(Ctx(e)) = Ctx(e)
                          /\ closePipe(Ctx(e)).calls = <<>>

\* C6 witness: an endpoint that was open and has sent bytes is closed.
C6_Witness ==
    \E e \in Ends : ~aborted[e] /\ isClosed(e) /\ sent[e] # <<>> /\ torn

\* C7 as stated: no byte passed to write() while the endpoint was closed
\* after having been open is ever handed to a transport send.
C7_ClosedWritesNeverSent ==
    [][\A e \in Ends :
          (Range(sent'[e]) \ Range(sent[e])) \cap closedWrites[e] = {}]_vars

\* C7, amended: as long as the endpoint stays closed nothing of it reaches
\* the transport: no step hands a byte to a send or starts an operation, a
\* write() only appends its bytes to the output queue, and the bytes written
\* while closed stay queued (a later connect sends them).
C7_NoTransportEffectWhileClosed ==
    [][\A e \in Ends :
          (isClosed(e) /\ isClosed(e)' /\ ~aborted'[e]) =>
             /\ sent'[e] = sent[e]
             /\ wrOp'[e] = wrOp[e] /\ rdOp'[e] = rdOp[e]
             /\ IsPrefix(m_outQueue[e], m_outQueue'[e])
             /\ Len(chan'[Peer(e)]) <= Len(chan[Peer(e)])
             /\ written'[e] = written[e] \o
                   SubSeq(m_outQueue'[e], Len(m_outQueue[e]) + 1, Len(m_outQueue'[e]))
             /\ closedWrites'[e] \subseteq Range(m_outQueue'[e])]_vars

\* C7 witness: a closed endpoint that has sent bytes while it was open and
\* holds bytes written since it was closed.
C7_Witness ==
    \E e \in Ends :
        /\ ~aborted[e] /\ isClosed(e)
        /\ sent[e] # <<>>
        /\ closedWrites[e] # {}

\* C8: while the Writer has an operation outstanding every writeImmediately
\* call aborts without a transport call; a writeImmediately that does call
\* WriteFile finds no worker-issued send in flight.
C8_ImmediateWhilePendingIsFatal ==
    \A e \in Ends : ~aborted[e] =>
        \A n \in 1..MaxSize :
            \A o \in writeImmediatelyOutcomes(e, n) :
                /\ (m_outputWorker[e].alive /\ m_outputWorker[e].pending) =>
                      (o.fatal /\ o.calls = <<>>)
                /\ wrOp[e].st # "none" => (o.fatal /\ o.calls = <<>>)
                /\ o.calls # <<>> => wrOp[e].st = "none"

\* C8 witness: the Writer has a send in flight.
C8_Witness ==
    \E e \in Producers :
        /\ ~aborted[e]
        /\ m_outputWorker[e].alive /\ m_outputWorker[e].pending
        /\ wrOp[e].st = "inflight"
        /\ \E o \in writeImmediatelyOutcomes(e, 1) : o.fatal /\ o.calls = <<>>

\* C9: as long as the Writer has handed nothing to the transport,
\* bytesToSend() is the sum of the sizes passed to write(); and a write()
\* adds its size to bytesToSend() and touches neither the transport nor the
\* workers.
C9_BytesToSendIsSumWritten ==
    [][\A e \in Ends :
          /\ (~aborted'[e] /\ Queued(sent'[e]) = <<>>) =>
                 bytesToSend(e)' = Len(written'[e])
          /\ Len(written'[e]) > Len(written[e]) =>
                 /\ bytesToSend(e)' =
                       bytesToSend(e) + Len(written'[e]) - Len(written[e])
                 /\ envVars' = envVars
                 /\ sent' = sent
                 /\ m_outputWorker' = m_outputWorker
                 /\ m_inputWorker' = m_inputWorker]_vars

\* C9 witness: a connected endpoint with MaxBytes bytes written by more than
\* one write() and none sent.
C9_Witness ==
    \E e \in Ends :
        /\ ~aborted[e] /\ m_outputWorker[e].alive
        /\ Queued(sent[e]) = <<>>
        /\ Len(written[e]) = MaxBytes

\* C10: bytesToSend() is the length of the output queue plus the bytes of
\* the send in flight: equal to the queue length when the transport holds no
\* send, the bytes handed to WriteFile and not yet seen complete otherwise;
\* and until a teardown, bytes written = bytesToSend() + bytes completed.
C10_BytesToSendConservation ==
    \A e \in Ends : ~aborted[e] =>
        /\ wrOp[e].st = "none" => bytesToSend(e) = Len(m_outQueue[e])
        /\ wrOp[e].st # "none" => bytesToSend(e) > Len(m_outQueue[e])
        /\ ~torn =>
              /\ bytesToSend(e) =
                    Len(m_outQueue[e]) + Len(Queued(sent[e])) - acked[e]
              /\ bytesToSend(e) + acked[e] = Len(written[e])

\* C10 witness: before any teardown, a send is in flight while bytes are
\* still queued and earlier bytes have completed.
C10_Witness ==
    \E e \in Ends :
        /\ ~torn
        /\ wrOp[e].st # "none"
        /\ m_outQueue[e] # <<>>
        /\ acked[e] > 0

\* ------------------------------------------------ the value serviceIo returns
\* What a tick did, read off the state it leaves: bytes entered the input
\* queue, sends were seen complete, the endpoint went from open to closed.
BytesIn(e, o) == Len(o.x.inQ) - Len(m_inQueue[e])
BytesOut(e, o) == o.x.acked - acked[e]
ToreDown(e, o) == m_handle[e] /\ ~o.x.handle

\* C11: serviceIo returns true iff, during that call, bytes were appended to
\* the input queue, or a send was completed, or a worker failed and the
\* endpoint was torn down; on a closed endpoint it returns false and does
\* nothing.
C11_ServiceReturnValue ==
    \A e \in Ends : ~aborted[e] =>
        \A o \in serviceIoOutcomes(e) : ~o.x.fatal =>
            /\ o.ret = (BytesIn(e, o) > 0 \/ BytesOut(e, o) > 0 \/ ToreDown(e, o))
            /\ BytesIn(e, o) >= 0 /\ BytesOut(e, o) >= 0
            /\ isClosed(e) => (o.ret = FALSE /\ o.x = Ctx(e))

\* C11 witness: a state in which a tick of one open endpoint returns true
\* because bytes moved, with no teardown, and a tick of another open endpoint
\* returns false.
C11_Witness ==
    /\ \E e \in Ends : ~aborted[e] /\ m_handle[e] /\
          \E o \in serviceIoOutcomes(e) :
              o.ret /\ ~ToreDown(e, o) /\ BytesIn(e, o) + BytesOut(e, o) > 0
    /\ \E e \in Ends : ~aborted[e] /\ m_handle[e] /\
          \E o \in serviceIoOutcomes(e) : ~o.ret

\* ---------------------------------------------------------- wait handles
\* The directions of x whose operation the transport still knows.
Outstanding(x) ==
    (IF x.rdOp.st # "none" THEN {"in"} ELSE {})
    \cup (IF x.wrOp.st # "none" THEN {"out"} ELSE {})

\* C12 as stated: every handle a worker reports non-NULL during a tick is
\* pushed onto the caller's waitHandles, and only handles of workers with an
\* operation outstanding are.
C12_EveryReportedHandleAdded ==
    \A e \in Ends : ~aborted[e] =>
        \A o \in serviceIoOutcomes(e) :
            /\ o.reported \subseteq o.waitHandles
            /\ o.waitHandles \subseteq Outstanding(o.x)

\* C12, amended: on a tick that does not tear the endpoint down, the handles
\* pushed are exactly those of the workers that have an operation
\* outstanding when the tick ends, which are the ones the workers reported;
\* on a tick that ends in a teardown no handle is pushed, whatever the
\* workers reported before the failure was seen.
C12_HandlesOfPendingWorkers ==
    \A e \in Ends : ~aborted[e] =>
        /\ ReportedHandles(Ctx(e)) = Outstanding(Ctx(e))
        /\ \A o \in serviceIoOutcomes(e) : ~o.x.fatal =>
              /\ ~ToreDown(e, o) => /\ o.waitHandles = Outstanding(o.x)
                                    /\ o.waitHandles = o.reported
              /\ ToreDown(e, o) => o.waitHandles = {}

\* C12 witness: an endpoint with both workers where a tick can end with the
\* Reader pending and the Writer idle, only the Reader's handle pushed.
C12_Witness ==
    \E e \in Ends :
        /\ ~aborted[e] /\ m_inputWorker[e].alive /\ m_outputWorker[e].alive
        /\ \E o \in serviceIoOutcomes(e) :
              /\ ~ToreDown(e, o) /\ o.waitHandles = {"in"}
              /\ o.x.outW.alive /\ ~o.x.outW.pending

\* ------------------------------------------------------- input accessors
\* C13: read(n) returns the first min(n, bytesAvailable()) bytes of the
\* input queue and removes exactly them, the rest staying in order; peek(n)
\* returns the same prefix and changes nothing; neither touches the output
\* queue, the workers or the transport.
C13_ReadAndPeek ==
    [][\A e \in Consumers : \A n \in 1..MaxSize :
          LET k == IF n < bytesAvailable(e) THEN n ELSE bytesAvailable(e)
          IN /\ read(e, n) =>
                   /\ Len(readResult(e, n)) = k
                   /\ consumed'[e] = consumed[e] \o readResult(e, n)
                   /\ readResult(e, n) \o m_inQueue'[e] = m_inQueue[e]
                   /\ bytesAvailable(e)' = bytesAvailable(e) - k
                   /\ m_outQueue' = m_outQueue
                   /\ m_inputWorker' = m_inputWorker
                   /\ m_outputWorker' = m_outputWorker
                   /\ envVars' = envVars
             /\ peek(e, n) =>
                   /\ Len(peekResult(e, n)) = k
                   /\ peekResult(e, n) \o SubSeq(m_inQueue[e], k + 1, Len(m_inQueue[e]))
                         = m_inQueue[e]
                   /\ m_inQueue' = m_inQueue
                   /\ consumed' = consumed
                   /\ m_outQueue' = m_outQueue
                   /\ m_inputWorker' = m_inputWorker
                   /\ m_outputWorker' = m_outputWorker
                   /\ envVars' = envVars]_vars

\* C13 witness: a read that took fewer bytes than were buffered: one byte
\* has been consumed and the bytes behind it are still queued.
C13_Witness ==
    \E e \in Consumers :
        /\ ~aborted[e]
        /\ Len(consumed[e]) = 1
        /\ Len(m_inQueue[e]) >= 2

\* ------------------------------------------------------ workers and connects
\* The directions of endpoint e that have a worker.
Workers(e) ==
    (IF m_inputWorker[e].alive THEN {"in"} ELSE {})
    \cup (IF m_outputWorker[e].alive THEN {"out"} ELSE {})

\* C14 as stated, its last part: a closed endpoint has no worker and may be
\* connected again, and every connect operation called on an endpoint that
\* is already open is fatal.
C14_ConnectOfOpenEndpointIsFatal ==
    \A e \in Ends : ~aborted[e] =>
        /\ isClosed(e) => (Workers(e) = {} /\ connectToServerResult(e) # "fatal")
        /\ ~isClosed(e) => /\ connectToServerResult(e) = "fatal"
                           /\ connectToClientResult(e) = "fatal"

\* C14, amended: a closed endpoint has no worker; the step that opens an
\* endpoint is a connectToServer, which creates both workers, or an
\* adoptHandle, which creates exactly the worker of the direction named; the
\* set of workers does not change while the endpoint stays open; a failed
\* connectToServer changes nothing; connectToServer and adoptHandle are
\* permitted on a closed endpoint and fatal on an open one.  connectToClient
\* is the other way round: it is fatal on a closed endpoint, returns
\* normally on an open one whose peer is attached, and neither opens the
\* endpoint nor creates a worker.
C14_WorkersFollowConnect ==
    [][\A e \in Ends :
          /\ (~aborted'[e] /\ isClosed(e)') => Workers(e)' = {}
          /\ (m_handle[e] /\ m_handle'[e]) => Workers(e)' = Workers(e)
          /\ (~m_handle[e] /\ m_handle'[e]) =>
                \/ /\ connectToServer(e)
                   /\ Workers(e)' = {"in", "out"}
                \/ /\ adoptHandle(e, TRUE)
                   /\ Workers(e)' = {"out"}
                \/ /\ adoptHandle(e, FALSE)
                   /\ Workers(e)' = {"in"}
          /\ (~m_handle[e] /\ m_handle'[e]) =>
                /\ m_inputWorker'[e] \in {NoWorker, NewWorker}
                /\ m_outputWorker'[e] \in {NoWorker, NewWorker}
          /\ (~aborted[e] /\ connectToServer(e)) =>
                /\ ~isClosed(e) => aborted'[e]
                /\ (isClosed(e) /\ ~PeerOpen(e)) => UNCHANGED vars
                /\ (isClosed(e) /\ PeerOpen(e)) => m_handle'[e]
          /\ \A wr \in BOOLEAN : (~aborted[e] /\ adoptHandle(e, wr)) =>
                /\ ~isClosed(e) => aborted'[e]
                /\ isClosed(e) => m_handle'[e]
          /\ (~aborted[e] /\ connectToClient(e)) =>
                /\ (isClosed(e) \/ ~PeerOpen(e)) => aborted'[e]
                /\ (~isClosed(e) /\ PeerOpen(e)) => UNCHANGED vars]_vars

\* C14 witness: one endpoint opened by connectToServer has both workers
\* while the other, opened by adoptHandle, has exactly one.
C14_Witness ==
    \E e \in Ends :
        /\ ~aborted[e] /\ ~aborted[Peer(e)]
        /\ m_handle[e] /\ Workers(e) = {"in", "out"}
        /\ m_handle[Peer(e)] /\ Cardinality(Workers(Peer(e))) = 1

\* ------------------------------------------------- input after a teardown
IsSuffix(s, t) == Len(s) <= Len(t) /\ s = SubSeq(t, Len(t) - Len(s) + 1, Len(t))

\* C15: a teardown, by closePipe or inside a failing serviceIo, leaves the
\* bytes of the input queue where they are; while the endpoint stays closed
\* the input queue only loses, at its front, the bytes the read accessors
\* return, nothing is appended to it, and nothing is handed to the
\* transport.
C15_InputSurvivesTeardown ==
    [][\A e \in Ends : (~aborted[e] /\ ~aborted'[e]) =>
          /\ closePipe(Ctx(e)).inQ = m_inQueue[e]
          /\ \A o \in serviceIoOutcomes(e) :
                ToreDown(e, o) => IsPrefix(m_inQueue[e], o.x.inQ)
          /\ (m_handle[e] /\ ~m_handle'[e]) =>
                /\ IsPrefix(m_inQueue[e], m_inQueue'[e])
                /\ consumed'[e] = consumed[e]
          /\ (isClosed(e) /\ isClosed(e)') =>
                /\ IsSuffix(m_inQueue'[e], m_inQueue[e])
                /\ consumed'[e] \o m_inQueue'[e] = consumed[e] \o m_inQueue[e]
                /\ sent'[e] = sent[e]
                /\ \A n \in 1..MaxSize :
                      Len(peekResult(e, n)) = Min(n, Len(m_inQueue[e]))]_vars

\* C15 witness: a torn-down endpoint from which part of the input buffered
\* before the teardown has been read and the rest is still readable.
C15_Witness ==
    \E e \in Ends :
        /\ ~aborted[e] /\ isClosed(e) /\ torn
        /\ consumed[e] # <<>>
        /\ m_inQueue[e] # <<>>
        /\ rdOp[e].st = "none"

\* ------------------------------------------------------- the pending flag
\* C16: a worker's pending flag is set exactly while the transport knows an
\* operation of it that the worker has not collected (in flight, completed,
\* failed or canceled), before and after every call of its service(); a
\* worker whose operation is still in flight only queries it: service()
\* returns 0, issues nothing and changes nothing; and a call that finds the
\* flag set issues no operation unless it has collected the outstanding one
\* first.
C16_PendingIffOutstanding ==
    \A e \in Ends : ~aborted[e] =>
        \A isRead \in BOOLEAN :
            LET w == GetW(Ctx(e), isRead)
                op == GetOp(Ctx(e), isRead)
                issue == IF isRead THEN "ReadFile" ELSE "WriteFile"
            IN /\ w.pending <=> op.st # "none"
               /\ w.pending => w.alive
               /\ w.alive =>
                    \A r \in WorkerService(Ctx(e), isRead) :
                        /\ GetW(r.x, isRead).pending <=> GetOp(r.x, isRead).st # "none"
                        /\ (w.pending /\ op.st = "inflight") =>
                              /\ r.ret = 0
                              /\ r.x = Log(Ctx(e), "GetOverlappedResult")
                        /\ (w.pending /\ issue \in Range(r.x.calls)) =>
                              /\ op.st = "done"
                              /\ r.x.calls[1] = "GetOverlappedResult"
                              /\ r.ret >= op.actual \/ r.ret = -1

\* C16 witness: a pending Reader whose receive has completed, and a call of
\* its service() that collects it and issues the next one, which stays
\* pending.
C16_Witness ==
    \E e \in Ends :
        /\ ~aborted[e]
        /\ m_inputWorker[e].alive /\ m_inputWorker[e].pending
        /\ rdOp[e].st = "done"
        /\ \E r \in WorkerService(Ctx(e), TRUE) :
              /\ r.x.inW.pending /\ r.x.rdOp.st = "inflight"
              /\ r.ret = rdOp[e].actual

\* ------------------------------------------------- drain while synchronous
\* C17: whenever a worker's service() returns a value other than -1, the
\* worker is pending or its shouldIssueIo has nothing to issue; so after a
\* tick that did not fail, a Writer with a non-empty output queue is
\* pending, and a Reader that is not pending has an input queue at or above
\* the limit.
C17_DrainWhileSynchronous ==
    \A e \in Ends : ~aborted[e] =>
        /\ \A isRead \in BOOLEAN : GetW(Ctx(e), isRead).alive =>
              \A r \in WorkerService(Ctx(e), isRead) :
                  (r.ret >= 0 /\ ~r.x.fatal) =>
                     \/ GetW(r.x, isRead).pending
                     \/ ~shouldIssueIo(r.x, isRead).ok
        /\ \A o \in serviceIoOutcomes(e) :
              (m_handle[e] /\ ~ToreDown(e, o) /\ ~o.x.fatal) =>
                 /\ (o.x.outW.alive /\ o.x.outQ # <<>>) =>
                       (o.x.outW.pending /\ o.x.wrOp.st = "inflight")
                 /\ (o.x.inW.alive /\ ~o.x.inW.pending) =>
                       Len(o.x.inQ) >= o.x.rbs

\* C17 witness: an output queue of more than one chunk that a single tick
\* empties with sends that all complete at once, leaving the Writer idle.
C17_Witness ==
    \E e \in Ends :
        /\ ~aborted[e] /\ m_outputWorker[e].alive
        /\ Len(m_outQueue[e]) > kIoSize
        /\ \E o \in serviceIoOutcomes(e) :
              /\ ~ToreDown(e, o)
              /\ o.x.outQ = <<>> /\ ~o.x.outW.pending
              /\ BytesOut(e, o) = Len(m_outQueue[e])

\* --------------------------------------------------- the Reader's policy
\* The bytes a completed receive left in the Reader's buffer.
Received(e) ==
    IF rdOp[e].st = "done"
    THEN SubSeq(m_inputWorker[e].buffer, 1, rdOp[e].actual)
    ELSE <<>>

\* C18: a Reader that is not pending on an endpoint that is closed or whose
\* input queue is at or above the limit issues nothing; a receive that goes
\* pending was issued on an open endpoint with the queue below the limit,
\* and one that completed at once was issued below the limit too; and the
\* bytes a tick appends to the input queue are exactly the bytes its
\* receives completed with, in order: those of the receive that was
\* outstanding, then those taken from the pipe.
C18_ReaderPolicy ==
    [][\A e \in Ends : ~aborted[e] =>
          /\ (m_inputWorker[e].alive /\ ~m_inputWorker[e].pending
                /\ (isClosed(e) \/ Len(m_inQueue[e]) >= m_readBufferSize[e])) =>
                WorkerService(Ctx(e), TRUE) = {[x |-> Ctx(e), ret |-> 0]}
          /\ (rdOp[e].st # "inflight" /\ rdOp'[e].st = "inflight") =>
                /\ m_handle'[e]
                /\ Len(m_inQueue'[e]) < m_readBufferSize'[e]
          /\ (Len(chan'[e]) < Len(chan[e]) /\ Len(m_inQueue'[e]) > Len(m_inQueue[e])) =>
                /\ m_handle[e]
                /\ Len(m_inQueue'[e]) <= m_readBufferSize[e] + kIoSize - 1
          /\ Len(m_inQueue'[e]) > Len(m_inQueue[e]) =>
                m_inQueue'[e] = m_inQueue[e] \o Received(e)
                   \o SubSeq(chan[e], 1, Len(chan[e]) - Len(chan'[e]))]_vars

\* C18 witness: backpressure at work: an open endpoint whose Reader is idle
\* with the input queue at the limit while bytes wait in the pipe.
C18_Witness ==
    \E e \in Ends :
        /\ ~aborted[e] /\ m_handle[e]
        /\ m_inputWorker[e].alive /\ ~m_inputWorker[e].pending
        /\ Len(m_inQueue[e]) >= m_readBufferSize[e]
        /\ chan[e] # <<>>
        /\ consumed[e] # <<>>

\* ------------------------------------------------------------ termination
\* How often call c occurs in the log of calls.
Count(calls, c) == Cardinality({i \in 1..Len(calls) : calls[i] = c})
NonBlocking == {"GetOverlappedResult", "ReadFile", "WriteFile"}
\* The most operations one call of a worker's service() can issue: a send
\* per chunk of the output queue; a receive per byte missing to the limit
\* once the outstanding receive is collected.
MaxSends(e) == (Len(m_outQueue[e]) + kIoSize - 1) \div kIoSize
MaxReceives(e) ==
    LET have == Len(m_inQueue[e]) + Len(Received(e))
    IN IF have < m_readBufferSize[e] THEN m_readBufferSize[e] - have ELSE 0

\* C19 as stated: serviceIo never blocks: no outcome of a tick contains a
\* blocking transport call, and each issues a bounded number of operations.
C19_ServiceNeverBlocks ==
    \A e \in Ends : ~aborted[e] =>
        \A o \in serviceIoOutcomes(e) :
            /\ Range(o.x.calls) \cap Drains = {}
            /\ Count(o.x.calls, "WriteFile") <= MaxSends(e)
            /\ Count(o.x.calls, "ReadFile") <= MaxReceives(e)

\* C19, amended: a worker's service() makes non-blocking calls only and
\* issues a bounded number of operations, whatever the transport answers,
\* and so does a tick of serviceIo that does not fail; a tick in which a
\* worker fails ends with the teardown, whose drain blocks once for each
\* worker that is pending, after which the call returns.
C19_ServiceTerminates ==
    \A e \in Ends : ~aborted[e] =>
        /\ \A isRead \in BOOLEAN : GetW(Ctx(e), isRead).alive =>
              \A r \in WorkerService(Ctx(e), isRead) :
                  /\ Range(r.x.calls) \subseteq NonBlocking
                  /\ Count(r.x.calls, "GetOverlappedResult") <= 1
                  /\ Count(r.x.calls, "WriteFile") <= (IF isRead THEN 0 ELSE MaxSends(e))
                  /\ Count(r.x.calls, "ReadFile") <= (IF isRead THEN MaxReceives(e) ELSE 0)
        /\ \A o \in serviceIoOutcomes(e) :
              /\ Count(o.x.calls, "WriteFile") <= MaxSends(e)
              /\ Count(o.x.calls, "ReadFile") <= MaxReceives(e)
              /\ Count(o.x.calls, "GetOverlappedResult") <= 2
              /\ ~ToreDown(e, o) => Range(o.x.calls) \subseteq NonBlocking
              /\ ToreDown(e, o) =>
                    /\ Count(o.x.calls, "GetOverlappedResult:wait:in") <= 1
                    /\ Count(o.x.calls, "GetOverlappedResult:wait:out") <= 1
                    /\ Count(o.x.calls, "CancelIo") = 1
                    /\ Count(o.x.calls, "CloseHandle") = 1

\* C19 witness: a Reader whose service() can issue more than one receive in
\* one call, each completing at once, before it returns.
C19_Witness ==
    \E e \in Ends :
        /\ ~aborted[e] /\ m_inputWorker[e].alive
        /\ \E r \in WorkerService(Ctx(e), TRUE) :
              Count(r.x.calls, "ReadFile") >= 2 /\ r.ret >= 2

\* ------------------------------------------------ write and writeImmediately
\* The place of a byte in the producer's order of submission.
Abs(b) == IF b < 0 THEN 0 - b ELSE b
Increasing(s) == \A i, j \in 1..Len(s) : i < j => Abs(s[i]) < Abs(s[j])
Immediate(s) == SelectSeq(s, LAMBDA b : b < 0)
\* The bytes of endpoint e that have entered the pipe, in the order they
\* did: those its peer has read, has queued, holds in its Reader's buffer,
\* and those still in the pipe.
Arrived(e) ==
    consumed[Peer(e)] \o m_inQueue[Peer(e)] \o Received(Peer(e)) \o chan[Peer(e)]

\* C20 as stated: the bytes reach the transport in the order the producer
\* submitted them: no byte of a writeImmediately has been handed to the
\* transport while a byte of an earlier write() is still in the output
\* queue.
C20_SubmissionOrder ==
    \A e \in Ends : ~aborted[e] =>
        /\ Increasing(sent[e])
        /\ \A i \in 1..Len(sent[e]) : \A b \in Range(m_outQueue[e]) :
              sent[e][i] < 0 => Abs(sent[e][i]) < b

\* C20, amended: the bytes of write() reach the transport in the order of
\* the write() calls, and the bytes of writeImmediately in the order of
\* those calls; a writeImmediately puts its bytes into the pipe at once,
\* ahead of whatever the output queue holds, which it leaves untouched, and
\* only while no send of the Writer is outstanding; so until a teardown the
\* bytes enter the pipe in the order they were handed to WriteFile.
C20_OrderWithinEachPath ==
    [][\A e \in Ends : ~aborted'[e] =>
          /\ Increasing(Queued(sent'[e]) \o m_outQueue'[e])
          /\ Increasing(Immediate(sent'[e]))
          /\ ~torn' => IsPrefix(Arrived(e)', sent'[e])
          /\ Immediate(sent'[e]) # Immediate(sent[e]) =>
                /\ wrOp[e].st = "none"
                /\ m_outQueue'[e] = m_outQueue[e]
                /\ \E n \in 1..MaxSize :
                      /\ sent'[e] = sent[e] \o FreshImm(e, n)
                      /\ chan'[Peer(e)] = chan[Peer(e)] \o FreshImm(e, n)]_vars

\* C20 witness: with nothing torn down, a byte of a writeImmediately has
\* been handed to the transport while a byte of an earlier write() is still
\* in the output queue, and the peer has already read it.
C20_Witness ==
    \E e \in Ends :
        /\ ~torn /\ ~aborted[e]
        /\ \E b \in Range(m_outQueue[e]) :
              \E c \in Range(consumed[Peer(e)]) : c < 0 /\ b < Abs(c)

====
